---- MODULE Spec2Model ----
(***************************************************************************)
(* A model of dashboard.py: the memoized CSV loader, the two preparation   *)
(* functions, the KPI computation and the three tab views of main(), run   *)
(* once per user interaction against five source files that may change     *)
(* between runs.                                                           *)
(***************************************************************************)
EXTENDS Integers, Sequences, FiniteSets, TLC

VARIABLES
    fs,               \* the five CSV files on disk
    changes,          \* how many times a file was rewritten, created or removed
    cache,            \* st.cache_data's memo of load_data, keyed by filename
    loaded,           \* what the five load_data calls of the last run returned
    frames,           \* the same five objects when the last run ended
    errors,           \* the st.error messages the last run showed
    raised,           \* the exception that ended the last run, or "none"
    df_fedscope_prepared,  \* what prepare_fedscope_data returned in the last run
    df_layoff_prepared,    \* what prepare_layoff_data returned in the last run
    kpis,             \* what calculate_kpis returned in the last run
    selected_city,    \* the sidebar's city selectbox
    selected_agency,  \* the sidebar's agency selectbox
    kpi_section,      \* the three metrics above the tabs
    tab1,             \* Federal Workforce
    tab2,             \* Layoff Impact
    tab3              \* Layoff News

vars == <<fs, changes, cache, loaded, frames, errors, raised,
          df_fedscope_prepared, df_layoff_prepared, kpis,
          selected_city, selected_agency, kpi_section, tab1, tab2, tab3>>

\* How many file changes a behaviour may hold.
MaxChanges == 1

(***************************************************************************)
(* Text.  A string is a sequence of one-character strings; NaN is pandas'  *)
(* missing value, which is no string.                                      *)
(***************************************************************************)
AsciiOrder ==
    <<" ", ".", "A", "B", "C", "D", "E", "F", "G", "H", "I", "J", "K", "L", "M",
      "N", "O", "P", "Q", "R", "S", "T", "U", "V", "W", "X", "Y", "Z",
      "a", "b", "c", "d", "e", "f", "g", "h", "i", "j", "k", "l", "m",
      "n", "o", "p", "q", "r", "s", "t", "u", "v", "w", "x", "y", "z", "|">>

Chars == {AsciiOrder[i] : i \in 1..Len(AsciiOrder)}

\* ord(c), as a rank among the characters above
OrdTable == [c \in Chars |-> CHOOSE i \in 1..Len(AsciiOrder) : AsciiOrder[i] = c]

Ord(c) == OrdTable[c]

\* c.lower()
LowerTable ==
    [c \in Chars |->
        IF OrdTable[c] >= OrdTable["A"] /\ OrdTable[c] <= OrdTable["Z"]
        THEN AsciiOrder[OrdTable[c] + (OrdTable["a"] - OrdTable["A"])]
        ELSE c]

ToLower(c) == LowerTable[c]

NaN == <<"NaN">>

IsNull(v) == v = NaN

\* Python's str ordering, which pandas uses to sort group keys.
StrLess(a, b) ==
    \E i \in 1..Len(b) :
        /\ \A j \in 1..(i - 1) : j <= Len(a) /\ a[j] = b[j]
        /\ (i > Len(a) \/ Ord(a[i]) < Ord(b[i]))

\* Tuples of strings, compared as Python compares tuples.
KeyLess(k1, k2) ==
    \E i \in 1..Len(k1) :
        /\ \A j \in 1..(i - 1) : k1[j] = k2[j]
        /\ StrLess(k1[i], k2[i])

\* sep.join(parts)
RECURSIVE Join(_, _)
Join(sep, parts) ==
    IF parts = <<>> THEN <<>>
    ELSE IF Len(parts) = 1 THEN parts[1]
    ELSE parts[1] \o sep \o Join(sep, Tail(parts))

\* pat.split("|"): the alternatives of a regular expression
RECURSIVE Alternatives(_)
Alternatives(pat) ==
    IF \A i \in 1..Len(pat) : pat[i] # "|" THEN <<pat>>
    ELSE LET i == CHOOSE k \in 1..Len(pat) :
                     pat[k] = "|" /\ \A j \in 1..(k - 1) : pat[j] # "|"
         IN <<SubSeq(pat, 1, i - 1)>> \o Alternatives(SubSeq(pat, i + 1, Len(pat)))

\* One alternative matched at one offset, re.IGNORECASE: "." is any character,
\* every other character of the alphabet is itself.
MatchesAt(alt, text, off) ==
    \A j \in 1..Len(alt) :
        alt[j] = "." \/ ToLower(alt[j]) = ToLower(text[off + j])

\* re.search(pat, text, re.IGNORECASE) is not None
RegexSearch(pat, text) ==
    \E a \in 1..Len(Alternatives(pat)) :
        LET alt == Alternatives(pat)[a]
        IN \E off \in 0..(Len(text) - Len(alt)) : MatchesAt(alt, text, off)

\* Series.str.contains(pat, case=False, na=False) for one cell: regex=True is
\* the default, and a missing value gives na.
str_contains(v, pat) == IF IsNull(v) THEN FALSE ELSE RegexSearch(pat, v)

\* pat occurs in text as a literal substring, ignoring case
LiteralContains(pat, text) ==
    \E off \in 0..(Len(text) - Len(pat)) :
        \A j \in 1..Len(pat) : ToLower(pat[j]) = ToLower(text[off + j])

(***************************************************************************)
(* Sequences and frames.  A DataFrame is its set of column names and its   *)
(* rows in order, each row a function from the column names to the cells.  *)
(***************************************************************************)
RECURSIVE SumSeq(_)
SumSeq(s) == IF s = <<>> THEN 0 ELSE Head(s) + SumSeq(Tail(s))

\* The rows cut down to some of their columns.
Restrict(rows, cols) == [i \in 1..Len(rows) |-> [c \in cols |-> rows[i][c]]]

\* One column of the rows, as a sequence.
ColumnOf(rows, col) == [i \in 1..Len(rows) |-> rows[i][col]]

None == [kind |-> "None"]

DataFrame(cols, rows) == [kind |-> "DataFrame", cols |-> cols, rows |-> rows]

Column(df, col) == ColumnOf(df.rows, col)

\* Series.unique(): the values in order of first appearance
Unique(s) ==
    LET first == SelectSeq([i \in 1..Len(s) |-> i],
                           LAMBDA i : \A j \in 1..(i - 1) : s[j] # s[i])
    IN [k \in 1..Len(first) |-> s[first[k]]]

Ok(v) == [exc |-> "none", val |-> v]

Raise(e) == [exc |-> e, val |-> None]

\* df[col] = values: the frame with the column added or replaced.
SetColumn(df, col, values) ==
    DataFrame(df.cols \cup {col},
              [i \in 1..Len(df.rows) |->
                  [c \in df.cols \cup {col} |->
                      IF c = col THEN values[i] ELSE df.rows[i][c]]])

\* DataFrame.dropna(subset=...): a new frame without the rows that miss a
\* value in one of the columns; KeyError when the frame has no such column.
dropna(df, subset) ==
    IF ~(subset \subseteq df.cols) THEN Raise("KeyError")
    ELSE Ok(DataFrame(df.cols,
                      SelectSeq(df.rows, LAMBDA r : \A c \in subset : ~IsNull(r[c]))))

\* df[[...]]: the listed columns only
Project(df, cols) ==
    IF ~(cols \subseteq df.cols) THEN Raise("KeyError")
    ELSE Ok(DataFrame(cols, Restrict(df.rows, cols)))

\* pd.merge(left, right, on=key, how='inner'): the pairs of rows with equal
\* keys, in the order of the left rows and, under one left row, of the right
\* rows.  The frames merged here share no column but the key, and the right
\* one holds no missing key.
RECURSIVE MergeRows(_, _, _)
MergeRows(lrows, rrows, key) ==
    IF lrows = <<>> THEN <<>>
    ELSE LET l == Head(lrows)
             hits == SelectSeq(rrows, LAMBDA r : r[key] = l[key])
         IN [i \in 1..Len(hits) |-> l @@ hits[i]] \o MergeRows(Tail(lrows), rrows, key)

merge(left, right, key) ==
    IF key \notin left.cols \/ key \notin right.cols THEN Raise("KeyError")
    ELSE Ok(DataFrame(left.cols \cup right.cols, MergeRows(left.rows, right.rows, key)))

\* The distinct keys of a set, ascending: groupby sorts its groups.
RECURSIVE SortKeys(_)
SortKeys(S) ==
    IF S = {} THEN <<>>
    ELSE LET m == CHOOSE x \in S : \A y \in S : y = x \/ KeyLess(x, y)
         IN <<m>> \o SortKeys(S \ {m})

\* df.groupby(by)[col].sum().reset_index(): one row per distinct key, the
\* keys ascending, the column summed over the key's rows.  Rows with a
\* missing key are left out.
groupby_sum(df, by, col) ==
    LET KeyOf(r) == [i \in 1..Len(by) |-> r[by[i]]]
        rows == SelectSeq(df.rows, LAMBDA r : \A i \in 1..Len(by) : ~IsNull(r[by[i]]))
        keys == SortKeys({KeyOf(rows[i]) : i \in 1..Len(rows)})
        Total(k) == SumSeq(ColumnOf(SelectSeq(rows, LAMBDA r : KeyOf(r) = k), col))
        Row(k) == [c \in {by[i] : i \in 1..Len(by)} \cup {col} |->
                     IF c = col THEN Total(k)
                     ELSE k[CHOOSE i \in 1..Len(by) : by[i] = c]]
    IN DataFrame({by[i] : i \in 1..Len(by)} \cup {col},
                 [n \in 1..Len(keys) |-> Row(keys[n])])

(***************************************************************************)
(* The program.                                                            *)
(***************************************************************************)
TALENT == "city_skill_Available_Talent_projection.csv"
DEMAND == "city_skill_demand_alignment_live.csv"
DECISION == "city_skill_decision_table.csv"
NEWS == "federal_layoff_news_with_categories.csv"
FEDSCOPE == "fedscope_enriched_summary.csv"

Files == {TALENT, DEMAND, DECISION, NEWS, FEDSCOPE}

All == <<"A", "l", "l">>

NA == <<"N", "/", "A">>

Message(source, reason, detail) == [source |-> source, reason |-> reason, detail |-> detail]

\* pd.read_csv(filepath): the parsed frame, or an exception for a file that
\* holds no table.
read_csv(content) ==
    IF content.kind = "csv" THEN Ok(DataFrame(content.cols, content.rows))
    ELSE Raise("ParserError")

\* The body of load_data: None and an st.error for a file that is not there
\* or does not parse, the frame otherwise.
load_data_body(disk, filename) ==
    IF disk[filename].kind = "missing"
    THEN [ret |-> None, msgs |-> {Message(filename, "File not found", <<>>)}]
    ELSE LET df == read_csv(disk[filename])
         IN IF df.exc # "none"
            THEN [ret |-> None, msgs |-> {Message(filename, "Error loading data", <<>>)}]
            ELSE [ret |-> df.val, msgs |-> {}]

Miss == [hit |-> FALSE, ret |-> None, msgs |-> {}]

\* @st.cache_data: the memo is keyed by the argument, the file name, alone.
\* A hit returns a copy of the stored value and replays its messages; a miss
\* runs the body and stores whatever it returned, None included.
load_data(memo, disk, filename) ==
    IF memo[filename].hit THEN memo[filename]
    ELSE [hit |-> TRUE] @@ load_data_body(disk, filename)

columns_to_sum ==
    <<"TOTAL_EMP_PERM_FT", "TOTAL_EMP_PERM_PT", "TOTAL_EMP_TEMP_FT", "TOTAL_EMP_TEMP_PT">>

\* prepare_fedscope_data: [exc, val, msgs].  It, prepare_layoff_data and
\* calculate_kpis are memoized on the content of their arguments, which
\* changes nothing they return.
prepare_fedscope_data(df) ==
    IF df = None THEN Ok(None) @@ [msgs |-> {}]
    ELSE LET df_filtered == dropna(df, {"WORKFORCE", "AGENCY"})
         IN IF df_filtered.exc # "none" THEN Raise(df_filtered.exc) @@ [msgs |-> {}]
            ELSE IF \E i \in 1..Len(columns_to_sum) : columns_to_sum[i] \notin df.cols
            THEN LET i == CHOOSE k \in 1..Len(columns_to_sum) :
                              /\ columns_to_sum[k] \notin df.cols
                              /\ \A j \in 1..(k - 1) : columns_to_sum[j] \in df.cols
                 IN Ok(None) @@
                    [msgs |-> {Message(FEDSCOPE, "Column not found", columns_to_sum[i])}]
            ELSE LET with_total ==
                         SetColumn(df_filtered.val, "TOTAL_EMP",
                                   [i \in 1..Len(df_filtered.val.rows) |->
                                       SumSeq([k \in 1..Len(columns_to_sum) |->
                                                  df_filtered.val.rows[i][columns_to_sum[k]]])])
                 IN Ok(groupby_sum(with_total, <<"WORKFORCE", "AGENCY">>, "TOTAL_EMP"))
                    @@ [msgs |-> {}]

\* prepare_layoff_data: [exc, val]
prepare_layoff_data(df_news, df_decision) ==
    IF df_news = None \/ df_decision = None THEN Ok(None)
    ELSE LET cleaned == dropna(df_decision, {"city", "Skill Category"})
         IN IF cleaned.exc # "none" THEN Raise(cleaned.exc)
            ELSE LET df_decision_filtered ==
                         Project(cleaned.val,
                                 {"city", "Skill Category", "Number of Employees Impacted"})
                 IN IF df_decision_filtered.exc # "none" THEN Raise(df_decision_filtered.exc)
                    ELSE LET df_merged == merge(df_news, df_decision_filtered.val,
                                                "Skill Category")
                         IN IF df_merged.exc # "none" THEN Raise(df_merged.exc)
                            ELSE Ok(groupby_sum(df_merged.val, <<"city", "Skill Category">>,
                                                "Number of Employees Impacted"))

\* total_layoffs / total_federal_employees * 100, kept as a fraction
Percentage(total_layoffs, total_federal_employees) ==
    [num |-> total_layoffs * 100, den |-> total_federal_employees]

\* Series.idxmax(): the label of the first row that holds the maximum;
\* ValueError on an empty series.
idxmax(rows, label, col) ==
    IF rows = <<>> THEN Raise("ValueError")
    ELSE LET i == CHOOSE k \in 1..Len(rows) :
                      /\ \A j \in 1..Len(rows) : rows[j][col] <= rows[k][col]
                      /\ \A j \in 1..(k - 1) : rows[j][col] < rows[k][col]
         IN Ok(rows[i][label])

Kpis(total_layoffs, most_impacted_skill, percentage_impacted) ==
    [kind |-> "dict", total_layoffs |-> total_layoffs,
     most_impacted_skill |-> most_impacted_skill,
     percentage_impacted |-> percentage_impacted]

\* calculate_kpis: [exc, val]
calculate_kpis(df_fedscope, df_layoff) ==
    IF df_fedscope = None \/ df_layoff = None THEN Ok(None)
    ELSE LET total_federal_employees == SumSeq(Column(df_fedscope, "TOTAL_EMP"))
         IN IF total_federal_employees = 0 THEN Ok(Kpis(0, NA, Percentage(0, 1)))
            ELSE LET total_layoffs ==
                         SumSeq(Column(df_layoff, "Number of Employees Impacted"))
                     most_impacted_skill ==
                         idxmax(groupby_sum(df_layoff, <<"Skill Category">>,
                                            "Number of Employees Impacted").rows,
                                "Skill Category", "Number of Employees Impacted")
                 IN IF most_impacted_skill.exc # "none" THEN Raise(most_impacted_skill.exc)
                    ELSE Ok(Kpis(total_layoffs, most_impacted_skill.val,
                                 Percentage(total_layoffs, total_federal_employees)))

\* all_cities before 'All' is put first: the city columns of the three
\* city tables that loaded.  [exc, val], val a set: list(set(...)) keeps no
\* order.
all_cities(ld) ==
    LET present == {f \in {TALENT, DEMAND, DECISION} : ld[f] # None}
    IN IF \E f \in present : "city" \notin ld[f].cols THEN Raise("KeyError")
       ELSE Ok({All} \cup UNION {{ld[f].rows[i]["city"] : i \in 1..Len(ld[f].rows)} :
                                 f \in present})

all_agencies(prepared) ==
    {All} \cup (IF prepared = None THEN {}
                ELSE {prepared.rows[i]["AGENCY"] :
                          i \in 1..Len(prepared.rows)})

Unreached == [kind |-> "unreached"]

\* main(), sections 3 and 4: the two prepared frames, the KPIs and the
\* options of the two selectboxes, up to the first exception.
Prepare(ld) ==
    LET fed == prepare_fedscope_data(ld[FEDSCOPE])
        lay == prepare_layoff_data(ld[NEWS], ld[DECISION])
        k == IF fed.val # None /\ lay.val # None THEN calculate_kpis(fed.val, lay.val)
             ELSE Ok(None)
        cities == all_cities(ld)
        stop(e, f, l, kp, msgs) ==
            [exc |-> e, msgs |-> msgs, fed |-> f, lay |-> l, kpis |-> kp,
             cities |-> {}, agencies |-> {}]
    IN IF fed.exc # "none" THEN stop(fed.exc, None, None, Unreached, {})
       ELSE IF lay.exc # "none" THEN stop(lay.exc, fed.val, None, Unreached, fed.msgs)
       ELSE IF k.exc # "none"
       THEN stop(k.exc, fed.val, lay.val, [kind |-> "raised", exc |-> k.exc], fed.msgs)
       ELSE IF cities.exc # "none" THEN stop(cities.exc, fed.val, lay.val, k.val, fed.msgs)
       ELSE [exc |-> "none", msgs |-> fed.msgs, fed |-> fed.val, lay |-> lay.val,
             kpis |-> k.val, cities |-> cities.val, agencies |-> all_agencies(fed.val)]

Unrendered == [kind |-> "unrendered", rows |-> <<>>]

Warning == [kind |-> "warning", rows |-> <<>>]

Shown(rows) == [kind |-> "data", rows |-> rows]

\* f"{percentage:.2f}%": the hundredths of a percent, to the nearest
FormatPercentage(p) == (2 * 100 * p.num + p.den) \div (2 * p.den)

\* main(), "Display KPIs at the top"
KpiSection(k) ==
    IF k = None THEN [kind |-> "warning"]
    ELSE [kind |-> "metrics", total_layoffs |-> k.total_layoffs,
          most_impacted_skill |-> k.most_impacted_skill,
          percentage |-> FormatPercentage(k.percentage_impacted)]

\* Tab 1's filter with the agency test applied to the whole frame again
\* instead of to the rows the city test kept.
FilterFedscopeAgencyOverCity(df, city, agency) ==
    IF agency # All THEN SelectSeq(df.rows, LAMBDA r : r["AGENCY"] = agency)
    ELSE IF city # All
    THEN SelectSeq(df.rows, LAMBDA r : str_contains(r["WORKFORCE"], city))
    ELSE df.rows

\* Tab 1's filter of the prepared fedscope frame
FilterFedscope(df, city, agency) ==
    LET by_city == IF city # All
                   THEN SelectSeq(df.rows, LAMBDA r : str_contains(r["WORKFORCE"], city))
                   ELSE df.rows
    IN IF agency # All THEN SelectSeq(by_city, LAMBDA r : r["AGENCY"] = agency)
       ELSE by_city

Tab1(prepared, city, agency) ==
    IF prepared = None THEN Warning
    ELSE Shown(FilterFedscope(prepared, city, agency))

\* Tab 2's filter of the prepared layoff frame
FilterLayoff(df, city) ==
    IF city # All THEN SelectSeq(df.rows, LAMBDA r : r["city"] = city) ELSE df.rows

Tab2(prepared, city) ==
    IF prepared = None THEN Warning
    ELSE Shown(FilterLayoff(prepared, city))

\* A date as the CSV holds it, as pd.to_datetime parses it and as strftime
\* prints it.
DateStr(fmt, ymd) == [type |-> "str", fmt |-> fmt, ymd |-> ymd]

Timestamp(ymd) == [type |-> "datetime64", ymd |-> ymd]

to_datetime(v) == Timestamp(v.ymd)

strftime(v) == DateStr("%Y-%m-%d", v.ymd)

\* The pattern Tab 3 searches the summaries for.  [exc, val]
NewsPattern(df_decision, city) ==
    IF df_decision # None
    THEN IF "city" \notin df_decision.cols THEN Raise("KeyError")
         ELSE LET affected_cities ==
                      Unique(SelectSeq(Column(df_decision, "city"), LAMBDA c : c = city))
              IN Ok(Join(<<"|">>, affected_cities))
    ELSE Ok(city)

Link(row) == [tag |-> "a", href |-> row["link"], text |-> row["title"]]

\* Tab 3: [exc, view, news], news being df_federal_layoff_news when the tab
\* is left.
Tab3(df_news, df_decision, city) ==
    IF df_news = None THEN [exc |-> "none", view |-> Warning, news |-> df_news]
    ELSE IF "published_date" \notin df_news.cols
    THEN [exc |-> "KeyError", view |-> Unrendered, news |-> df_news]
    ELSE LET parsed == SetColumn(df_news, "published_date",
                                 [i \in 1..Len(df_news.rows) |->
                                     to_datetime(df_news.rows[i]["published_date"])])
             stop(e) == [exc |-> e, view |-> Unrendered, news |-> parsed]
             pat == NewsPattern(df_decision, city)
         IN IF city # All /\ pat.exc # "none" THEN stop(pat.exc)
            ELSE IF city # All /\ "summary" \notin parsed.cols THEN stop("KeyError")
            ELSE LET kept == IF city # All
                             THEN SelectSeq(parsed.rows,
                                            LAMBDA r : str_contains(r["summary"], pat.val))
                             ELSE parsed.rows
                     dated == SetColumn(DataFrame(parsed.cols, kept), "published_date",
                                        [i \in 1..Len(kept) |->
                                            strftime(kept[i]["published_date"])])
                     shown == {"published_date", "title", "categories", "summary"}
                 IN IF kept # <<>> /\ ~({"link", "title"} \subseteq dated.cols)
                    THEN stop("KeyError")
                    ELSE LET linked == SetColumn(dated, "title",
                                                 [i \in 1..Len(kept) |-> Link(dated.rows[i])])
                         IN IF ~(shown \subseteq linked.cols) THEN stop("KeyError")
                            ELSE [exc |-> "none",
                                  view |-> Shown(Project(linked, shown).val.rows),
                                  news |-> parsed]

(***************************************************************************)
(* The files the five sources may hold.                                    *)
(***************************************************************************)
Aus == <<"A", "u", "s">>
Dal == <<"D", "a", "l">>
Bos == <<"B", "o", "s">>
StL == <<"S", "t", ".", "L">>
IT == <<"I", "T">>
HR == <<"H", "R">>
Ops == <<"O", "p", "s">>
DoD == <<"D", "o", "D">>
VA == <<"V", "A">>

Missing == [kind |-> "missing"]
Garbled == [kind |-> "garbled"]
Csv(cols, rows) == [kind |-> "csv", cols |-> cols, rows |-> rows]

\* The same file written without one of its columns.
WithoutColumn(csv, col) ==
    Csv(csv.cols \ {col}, Restrict(csv.rows, csv.cols \ {col}))

TalentRow(city, skill, n) ==
    [c \in {"city", "Skill Category", "Available Talent"} |->
        IF c = "city" THEN city ELSE IF c = "Skill Category" THEN skill ELSE n]

TalentCsv == Csv({"city", "Skill Category", "Available Talent"},
                 <<TalentRow(Aus, IT, 120), TalentRow(Bos, HR, 80)>>)

DemandCsv == Csv({"city", "Skill Category", "Available Talent"},
                 <<TalentRow(StL, IT, 40)>>)

DecisionRow(city, skill, n) ==
    [c \in {"city", "Skill Category", "Number of Employees Impacted"} |->
        IF c = "city" THEN city ELSE IF c = "Skill Category" THEN skill ELSE n]

DecisionCsv == Csv({"city", "Skill Category", "Number of Employees Impacted"},
                   <<DecisionRow(Aus, IT, 5), DecisionRow(Dal, HR, 10),
                     DecisionRow(Dal, NaN, 7)>>)

NewsRow(ymd, title, skill, summary) ==
    [c \in {"published_date", "title", "categories", "summary", "link",
            "Skill Category"} |->
        CASE c = "published_date" -> DateStr("%m/%d/%Y", ymd)
          [] c = "title" -> title
          [] c = "categories" -> skill
          [] c = "summary" -> summary
          [] c = "link" -> <<"u">> \o title
          [] OTHER -> skill]

NewsCols == {"published_date", "title", "categories", "summary", "link", "Skill Category"}

NewsCsv == Csv(NewsCols,
               <<NewsRow(<<2025, 1, 5>>, <<"a">>, IT, <<"C", "u", "t", "s", " ", "A", "u", "s">>),
                 NewsRow(<<2025, 2, 6>>, <<"b">>, IT, <<"a", "u", "s", " ", "I", "T">>),
                 NewsRow(<<2025, 3, 7>>, <<"c">>, HR, <<"S", "t", "x", "L", " ", "H", "R">>),
                 NewsRow(<<2025, 4, 8>>, <<"d">>, Ops, NaN)>>)

\* News about a skill no decision row names.
NewsOps == Csv(NewsCols,
               <<NewsRow(<<2025, 5, 9>>, <<"e">>, Ops, <<"D", "a", "l", " ", "O", "p", "s">>)>>)

FedscopeRow(workforce, agency, perm_ft, perm_pt, temp_ft, temp_pt) ==
    [c \in {"WORKFORCE", "AGENCY"} \cup {columns_to_sum[i] : i \in 1..Len(columns_to_sum)} |->
        CASE c = "WORKFORCE" -> workforce
          [] c = "AGENCY" -> agency
          [] c = "TOTAL_EMP_PERM_FT" -> perm_ft
          [] c = "TOTAL_EMP_PERM_PT" -> perm_pt
          [] c = "TOTAL_EMP_TEMP_FT" -> temp_ft
          [] OTHER -> temp_pt]

FedscopeCols == {"WORKFORCE", "AGENCY"} \cup {columns_to_sum[i] : i \in 1..Len(columns_to_sum)}

FedscopeCsv ==
    Csv(FedscopeCols,
        <<FedscopeRow(<<"A", "u", "s", " ", "I", "T">>, DoD, 3, 1, 0, 0),
          FedscopeRow(<<"a", "u", "s", " ", "H", "R">>, VA, 4, 0, 0, 0),
          FedscopeRow(<<"A", "u", "s", " ", "I", "T">>, DoD, 2, 0, 0, 0),
          FedscopeRow(<<"S", "t", "x", "L">>, DoD, 1, 0, 1, 0),
          FedscopeRow(NaN, VA, 9, 0, 0, 0)>>)

\* A header and no rows.
FedscopeEmpty == Csv(FedscopeCols, <<>>)

Contents(f) ==
    CASE f = TALENT -> {Missing, TalentCsv}
      [] f = DEMAND -> {Garbled, DemandCsv}
      [] f = DECISION -> {Missing, DecisionCsv, WithoutColumn(DecisionCsv, "Skill Category")}
      [] f = NEWS -> {Missing, NewsCsv, NewsOps}
      [] OTHER -> {Missing, FedscopeCsv, FedscopeEmpty,
                   WithoutColumn(FedscopeCsv, "TOTAL_EMP_TEMP_PT"),
                   WithoutColumn(FedscopeCsv, "WORKFORCE")}

(***************************************************************************)
(* The state machine.                                                      *)
(***************************************************************************)
Init ==
    /\ \E t \in Contents(TALENT) : \E d \in Contents(DEMAND) :
       \E c \in Contents(DECISION) : \E n \in Contents(NEWS) :
       \E e \in Contents(FEDSCOPE) :
           fs = [f \in Files |->
                    CASE f = TALENT -> t [] f = DEMAND -> d [] f = DECISION -> c
                      [] f = NEWS -> n [] OTHER -> e]
    /\ changes = 0
    /\ cache = [f \in Files |-> Miss]
    /\ loaded = [f \in Files |-> None]
    /\ frames = [f \in Files |-> None]
    /\ errors = {}
    /\ raised = "none"
    /\ df_fedscope_prepared = None
    /\ df_layoff_prepared = None
    /\ kpis = Unreached
    /\ selected_city = All
    /\ selected_agency = All
    /\ kpi_section = [kind |-> "unrendered"]
    /\ tab1 = Unrendered
    /\ tab2 = Unrendered
    /\ tab3 = Unrendered

\* A source file is rewritten, created or removed between two runs.
ChangeSource ==
    /\ changes < MaxChanges
    /\ \E f \in Files : \E content \in Contents(f) \ {fs[f]} :
           fs' = [fs EXCEPT ![f] = content]
    /\ changes' = changes + 1
    /\ UNCHANGED <<cache, loaded, frames, errors, raised, df_fedscope_prepared,
                   df_layoff_prepared, kpis, selected_city, selected_agency,
                   kpi_section, tab1, tab2, tab3>>

\* One run of main(): Streamlit reruns the script from the top on every
\* interaction, here with the two selectboxes at any of their options.
Render ==
    /\ cache' = [f \in Files |-> load_data(cache, fs, f)]
    /\ loaded' = [f \in Files |-> cache'[f].ret]
    /\ UNCHANGED <<fs, changes>>
    /\ LET p == Prepare(loaded')
       IN /\ df_fedscope_prepared' = p.fed
          /\ df_layoff_prepared' = p.lay
          /\ kpis' = p.kpis
          /\ errors' = p.msgs \cup UNION {cache'[f].msgs : f \in Files}
          /\ IF p.exc # "none"
             THEN /\ raised' = p.exc
                  /\ frames' = loaded'
                  /\ kpi_section' = [kind |-> "unrendered"]
                  /\ tab1' = Unrendered
                  /\ tab2' = Unrendered
                  /\ tab3' = Unrendered
                  /\ UNCHANGED <<selected_city, selected_agency>>
             ELSE \E city \in p.cities : \E agency \in p.agencies :
                      LET t3 == Tab3(loaded'[NEWS], loaded'[DECISION], city)
                      IN /\ selected_city' = city
                         /\ selected_agency' = agency
                         /\ kpi_section' = KpiSection(kpis')
                         /\ tab1' = Tab1(df_fedscope_prepared', city, agency)
                         /\ tab2' = Tab2(df_layoff_prepared', city)
                         /\ tab3' = t3.view
                         /\ frames' = [loaded' EXCEPT ![NEWS] = t3.news]
                         /\ raised' = t3.exc

Next == Render \/ ChangeSource

Spec == Init /\ [][Next]_vars

(***************************************************************************)
(* What the claims speak of.                                               *)
(***************************************************************************)
\* A run of main() has taken place.
Ran == \A f \in Files : cache[f].hit

\* The columns main() and its helpers read from each source.
Schema(f) ==
    CASE f = DECISION -> {"city", "Skill Category", "Number of Employees Impacted"}
      [] f = NEWS -> NewsCols
      [] f = FEDSCOPE -> FedscopeCols
      [] OTHER -> {"city"}

LacksColumn(f) == loaded[f] # None /\ ~(Schema(f) \subseteq loaded[f].cols)

\* The sources each section of the page is computed from.
KpiSources == {FEDSCOPE, NEWS, DECISION}
Tab1Sources == {FEDSCOPE}
Tab2Sources == {NEWS, DECISION}
Tab3Sources == {NEWS}

AllLoaded(sources) == \A f \in sources : loaded[f] # None

\* The rows of the loaded decision table the selected city picks.
DecisionRowsSelected ==
    SelectSeq(loaded[DECISION].rows,
              LAMBDA r : selected_city = All \/ r["city"] = selected_city)

\* The category of largest total, the earliest in table order among equals.
FirstLargestCategory(rows) ==
    LET TotalOf(c) == SumSeq(ColumnOf(SelectSeq(rows, LAMBDA r : r["Skill Category"] = c),
                                      "Number of Employees Impacted"))
        i == CHOOSE k \in 1..Len(rows) :
                 /\ \A j \in 1..Len(rows) :
                        TotalOf(rows[j]["Skill Category"]) <= TotalOf(rows[k]["Skill Category"])
                 /\ \A j \in 1..(k - 1) :
                        TotalOf(rows[j]["Skill Category"]) < TotalOf(rows[k]["Skill Category"])
    IN rows[i]["Skill Category"]

\* C1: whenever calculate_kpis is called on two prepared tables, the layoff
\* percentage it returns is a number >= 0, and it is 0 when the employee
\* counts of the fedscope table sum to 0.
C1_LayoffPercentageDefined ==
    (df_fedscope_prepared # None /\ df_layoff_prepared # None) =>
        /\ kpis.kind = "dict"
        /\ kpis.percentage_impacted.den > 0
        /\ kpis.percentage_impacted.num >= 0
        /\ (SumSeq(Column(df_fedscope_prepared, "TOTAL_EMP")) = 0
                => kpis.percentage_impacted.num = 0)

\* C2: a city other than 'All' that matches no row of a table, by the test
\* the table's filter applies to a row, leaves that table's view empty; a
\* city that the decision table does not hold leaves the news view empty.
C2_NoMatchGivesEmptyView ==
    selected_city # All =>
        /\ (tab1.kind = "data" /\ \A i \in 1..Len(df_fedscope_prepared.rows) :
                ~str_contains(df_fedscope_prepared.rows[i]["WORKFORCE"], selected_city))
               => tab1.rows = <<>>
        /\ (tab2.kind = "data" /\ \A i \in 1..Len(df_layoff_prepared.rows) :
                df_layoff_prepared.rows[i]["city"] # selected_city)
               => tab2.rows = <<>>
        /\ (tab3.kind = "data" /\ \A i \in 1..Len(loaded[NEWS].rows) :
                ~str_contains(loaded[NEWS].rows[i]["summary"], selected_city))
               => tab3.rows = <<>>
        /\ (tab3.kind = "data" /\ loaded[DECISION] # None
                /\ \A i \in 1..Len(loaded[DECISION].rows) :
                       loaded[DECISION].rows[i]["city"] # selected_city)
               => tab3.rows = <<>>

\* C3: the total-layoffs KPI a run shows is the sum of the decision table's
\* layoff counts over the rows of the selected city, each row once; when no
\* row is of that city the section shows no data, or 0.
C3_EstimatedLayoffsKpi ==
    (kpi_section.kind # "unrendered" /\ AllLoaded(KpiSources)
            /\ \A f \in KpiSources : ~LacksColumn(f)) =>
        IF DecisionRowsSelected = <<>>
        THEN kpi_section.kind = "warning" \/ kpi_section.total_layoffs = 0
        ELSE /\ kpi_section.kind = "metrics"
             /\ kpi_section.total_layoffs =
                    SumSeq(ColumnOf(DecisionRowsSelected, "Number of Employees Impacted"))

\* The agency a news row is about; the news table of this program has no
\* agency column.
AgencyOf(row) == IF "Agency" \in DOMAIN row THEN row["Agency"] ELSE NaN

\* The fedscope rows an agency and a city pick, both tests at once.
FedscopeRowsSelected ==
    SelectSeq(df_fedscope_prepared.rows,
              LAMBDA r : /\ r["AGENCY"] = selected_agency
                         /\ (selected_city = All
                                \/ str_contains(r["WORKFORCE"], selected_city)))

\* C4, as stated: under a specific agency the fedscope view holds exactly the
\* rows of that agency that pass the location test, and so does the news
\* view.
C4_AgencyFiltersBothViews ==
    selected_agency # All =>
        /\ tab1.kind = "data" => tab1.rows = FedscopeRowsSelected
        /\ tab3.kind = "data" =>
               \A i \in 1..Len(tab3.rows) : AgencyOf(tab3.rows[i]) = selected_agency

\* C4, as amended: under a specific agency the fedscope view holds exactly
\* the rows of that agency that pass the location test; the KPIs, the impact
\* view and the news view of two runs over the same tables and the same city
\* are the same whatever the agency.
C4_AgencyFiltersFedscopeOnly ==
    /\ []((selected_agency # All /\ tab1.kind = "data")
              => tab1.rows = FedscopeRowsSelected)
    /\ [][(/\ tab3.kind # "unrendered" /\ tab3'.kind # "unrendered"
           /\ loaded' = loaded
           /\ selected_city' = selected_city)
              => (kpi_section' = kpi_section /\ tab2' = tab2 /\ tab3' = tab3)]_vars

\* A run under agency DoD and city Aus over a fedscope table that holds a
\* DoD row of another place and an Aus row of another agency, with news shown.
C4_Witness ==
    /\ selected_agency = DoD
    /\ selected_city = Aus
    /\ tab1.kind = "data"
    /\ tab1.rows # <<>>
    /\ \E i \in 1..Len(df_fedscope_prepared.rows) :
           /\ df_fedscope_prepared.rows[i]["AGENCY"] = DoD
           /\ ~str_contains(df_fedscope_prepared.rows[i]["WORKFORCE"], Aus)
    /\ \E i \in 1..Len(df_fedscope_prepared.rows) :
           /\ df_fedscope_prepared.rows[i]["AGENCY"] # DoD
           /\ str_contains(df_fedscope_prepared.rows[i]["WORKFORCE"], Aus)
    /\ tab3.kind = "data"
    /\ tab3.rows # <<>>

\* C5: when a run ends, each of the five loaded tables is as load_data
\* returned it.
C5_BaseTablesUnchanged == frames = loaded

\* C6: whatever sources fail to load, each failure has its message, the run
\* ends without an exception, a section with a failed source shows its
\* warning and a section whose sources all loaded shows its content.
C6_PartialDegrade ==
    (Ran /\ \A f \in Files : ~LacksColumn(f)) =>
        /\ \A f \in Files : loaded[f] = None => \E m \in errors : m.source = f
        /\ raised = "none"
        /\ kpi_section.kind = (IF AllLoaded(KpiSources) THEN "metrics" ELSE "warning")
        /\ tab1.kind = (IF AllLoaded(Tab1Sources) THEN "data" ELSE "warning")
        /\ tab2.kind = (IF AllLoaded(Tab2Sources) THEN "data" ELSE "warning")
        /\ tab3.kind = (IF AllLoaded(Tab3Sources) THEN "data" ELSE "warning")

\* C7: when a loaded table lacks a column, no exception ends the run and
\* every section that is computed from other tables is shown.
C7_MissingColumnIsLocal ==
    \A f \in Files : (Ran /\ LacksColumn(f)) =>
        /\ raised = "none"
        /\ f \notin KpiSources => kpi_section.kind # "unrendered"
        /\ f \notin Tab1Sources => tab1.kind # "unrendered"
        /\ f \notin Tab2Sources => tab2.kind # "unrendered"
        /\ f \notin Tab3Sources => tab3.kind # "unrendered"

\* C8: whenever calculate_kpis is called on two prepared tables, the top
\* category it returns is "N/A" for an empty layoff table and otherwise the
\* category of largest total, the first in table order among equals.
C8_TopCategory ==
    (df_fedscope_prepared # None /\ df_layoff_prepared # None) =>
        /\ kpis.kind = "dict"
        /\ kpis.most_impacted_skill =
               (IF df_layoff_prepared.rows = <<>> THEN NA
                ELSE FirstLargestCategory(df_layoff_prepared.rows))

\* C9: under a specific city the fedscope view and the news view hold exactly
\* the rows whose text holds the city as a literal substring, case ignored,
\* rows without text left out.
C9_FreeTextFilterIsLiteralSubstring ==
    selected_city # All =>
        /\ tab1.kind = "data" =>
               tab1.rows =
                   SelectSeq(df_fedscope_prepared.rows,
                             LAMBDA r : /\ LiteralContains(selected_city, r["WORKFORCE"])
                                        /\ selected_agency \in {All, r["AGENCY"]})
        /\ tab3.kind = "data" =>
               [i \in 1..Len(tab3.rows) |-> tab3.rows[i]["summary"]] =
                   SelectSeq(Column(loaded[NEWS], "summary"),
                             LAMBDA v : ~IsNull(v) /\ LiteralContains(selected_city, v))

\* C10: every run's load_data calls return what the files hold at the time
\* of the run.
C10_LoaderReflectsCurrentFile ==
    [][Render => \A f \in Files : loaded'[f] = load_data_body(fs, f).ret]_vars

====
